---- MODULE Spec2Model ----
(***************************************************************************)
(* ApiKeyManager (src/src/models/api-keys/index.ts): validated lookup of   *)
(* API keys through a process-local Map, a shared redis cache and the      *)
(* api_keys table, with eviction and an invalidation message on update,    *)
(* and creation of keys with a redis hash and a webhook notification.      *)
(*                                                                         *)
(* Every service instance owns one Map (the static apiKeys) and one redis  *)
(* connection; commands written to a connection are executed by redis in   *)
(* the order they were written, commands of different connections in any   *)
(* order.  An async method is one call; it is cut into steps at its        *)
(* awaits, and between two steps of a call any other call, any redis       *)
(* command and any database statement may run.  A run is short against     *)
(* the 24 hours of the negative marker: no expiration elapses in it.       *)
(***************************************************************************)
EXTENDS Integers, Sequences, FiniteSets, TLC

VARIABLES store, redis, local, conn, inbox, published, calls, hashes, notified,
          logs

vars == <<store, redis, local, conn, inbox, published, calls, hashes, notified,
          logs>>

(***************************************************************************)
(* Bounds of the model.                                                    *)
(***************************************************************************)
\* Number of method calls (getApiKey, update, deleteCachedApiKey) in a run.
MaxCalls == 3

Calls == 1..MaxCalls
Keys == {"k1", "k2"}
\* The keys calls are made for; the other key has its row and is cached in
\* every tier from the start, and its entries must stay as they are.
CallKeys == {"k1"}
Instances == {"A", "B"}
Tiers == {1, 2}

(***************************************************************************)
(* Values.  A row of api_keys, the JSON text of a row, an ApiKeyEntity and *)
(* the absent value (null / undefined / a missing redis key) are records   *)
(* of one shape, told apart by tag.                                        *)
(***************************************************************************)
Null == [tag |-> "null", key |-> "", tier |-> 0, active |-> FALSE]

\* The literal string "empty": the negative marker.
Empty == [tag |-> "empty", key |-> "", tier |-> 0, active |-> FALSE]

\* 3600 * 24, the expiration of the negative marker in seconds.
NegativeTtl == 86400

\* A row of api_keys as the driver returns it.
Row(k, t, a) == [tag |-> "row", key |-> k, tier |-> t, active |-> a]

\* JSON.stringify(row): the text stored in redis.
JSONstringify(row) == [row EXCEPT !.tag = "json"]

\* JSON.parse(text): the object read back from redis.
JSONparse(text) == [text EXCEPT !.tag = "row"]

\* new ApiKeyEntity(obj): the read view carrying the fields of the object.
ApiKeyEntity(obj) == [obj EXCEPT !.tag = "entity"]

\* JavaScript truthiness of a value read from redis or from the database.
Truthy(v) == v.tag # "null"

\* A redis entry, the one under `api-key:${key}`: a value and its expiration
\* in seconds (0: none).
NoEntry == [val |-> Null, ttl |-> 0]

\* SELECT * FROM api_keys WHERE key = $/key/ AND active = true
SelectActive(k) ==
  IF store[k].tag = "row" /\ store[k].active THEN store[k] ELSE Null

(***************************************************************************)
(* ApiKeyUpdateParams: each field is either given a value or undefined.    *)
(***************************************************************************)
NoFields == [tierDef |-> FALSE, tier |-> 0, activeDef |-> FALSE, active |-> FALSE]

UpdateParams ==
  { NoFields,
    [NoFields EXCEPT !.tierDef = TRUE, !.tier = 2],
    [NoFields EXCEPT !.activeDef = TRUE, !.active = FALSE] }

\* The SET list update() builds: one assignment per field that is not undefined.
UpdateString(f) ==
  (IF f.tierDef THEN {"tier"} ELSE {}) \cup (IF f.activeDef THEN {"active"} ELSE {})

\* A faulty variant: a row that is deactivated is deleted.
UpdateRowRemovesInactive(row, f) ==
  IF row.tag # "row" THEN row
  ELSE IF f.activeDef /\ ~f.active THEN Null
  ELSE [row EXCEPT !.tier = IF f.tierDef THEN f.tier ELSE @]

\* A faulty variant: every column is assigned, the undefined fields included.
UpdateRowAllFields(row, f) ==
  IF row.tag # "row" THEN row
  ELSE [row EXCEPT !.tier = f.tier, !.active = f.active]

\* UPDATE api_keys SET ... WHERE key = $/key/ applied to a row.
UpdateRow(row, f) ==
  IF row.tag # "row" THEN row
  ELSE [row EXCEPT !.tier = IF "tier" \in UpdateString(f) THEN f.tier ELSE @,
                   !.active = IF "active" \in UpdateString(f) THEN f.active ELSE @]

(***************************************************************************)
(* Calls.                                                                  *)
(***************************************************************************)
IdleCall ==
  [op |-> "none", inst |-> "A", key |-> "k1", pc |-> "idle", fields |-> NoFields,
   val |-> Null, fromDb |-> Null, result |-> Null, thrown |-> FALSE,
   timedOut |-> FALSE, path |-> "none", rcalls |-> 0, scalls |-> 0, seq |-> FALSE,
   settled |-> FALSE]

\* Whether call c is entered after the call before it has returned.
Follows(c) == c > 1 /\ calls[c - 1].pc = "done"

\* Calls are started in the order of their numbers.
CanStart(c) ==
  /\ calls[c].pc = "idle"
  /\ c > 1 => calls[c - 1].pc # "idle"

\* Whether, as a call for key k is entered on instance i, every update made
\* so far has returned and its invalidation message has been handled by i.
Settled(i, k) ==
  /\ \A e \in Calls : calls[e].op = "update" =>
        calls[e].pc = "done" /\ calls[e].path = "updated"
  /\ k \notin inbox[i]

\* A command written to the connection of an instance.
Command(o, k, v, c) == [op |-> o, key |-> k, val |-> v, call |-> c]

Send(i, cmds) == [conn EXCEPT ![i] = @ \o cmds]

HeadIs(i, o) == conn[i] # <<>> /\ Head(conn[i]).op = o

Pop(i) == [conn EXCEPT ![i] = Tail(@)]

Init ==
  /\ store \in [Keys -> {Null} \cup {Row(k, 1, TRUE) : k \in Keys}]
  /\ \A k \in Keys : store[k] = Null \/ store[k].key = k
  /\ \A k \in Keys \ CallKeys : store[k] # Null
  /\ redis = [k \in Keys |->
                IF k \in CallKeys THEN NoEntry
                ELSE [val |-> JSONstringify(store[k]), ttl |-> 0]]
  /\ local = [i \in Instances |-> [k \in Keys |->
                IF k \in CallKeys THEN Null ELSE ApiKeyEntity(store[k])]]
  /\ conn = [i \in Instances |-> <<>>]
  /\ inbox = [i \in Instances |-> {}]
  /\ published = <<>>
  /\ calls = [c \in Calls |-> IdleCall]
  /\ hashes = [k \in {} |-> Null]
  /\ notified = <<>>
  /\ logs = <<>>

(***************************************************************************)
(* getApiKey(key)                                                          *)
(***************************************************************************)
\* A faulty variant: the Map is never consulted.
CachedApiKeyMiss(i, k) == Null

\* ApiKeyManager.apiKeys.get(key)
CachedApiKey(i, k) == local[i][k]

\* A faulty variant: the marker is not recognised and is parsed as a row.
IsNegativeMarkerNever(apiKey) == FALSE

\* apiKey == "empty"
IsNegativeMarker(apiKey) == apiKey = Empty

\* A faulty variant: the positive entry is written with the marker's expiration.
WriteThroughExpiring(k, fromDb, c) ==
  <<Command("set", k, JSONstringify(fromDb), c), Command("expire", k, Null, c)>>

\* redis.set(redisKey, JSON.stringify(fromDb)): not awaited.
WriteThrough(k, fromDb, c) == <<Command("set", k, JSONstringify(fromDb), c)>>

\* A faulty variant: the marker is written without its expiration.
NegativeWriteNoExpire(k, c) == <<Command("set", k, Empty, c)>>

\* A faulty variant: the pipeline is built and never executed.
NegativeWriteNotExecuted(k, c) == <<>>

\* pipeline.set(redisKey, "empty"); pipeline.expire(redisKey, 3600 * 24);
\* pipeline.exec(): not awaited.
NegativeWrite(k, c) ==
  <<Command("set", k, Empty, c), Command("expire", k, Null, c)>>

\* The value a call returns (the promise resolves).
Return(c, res, how) ==
  [calls EXCEPT ![c].pc = "done", ![c].result = res, ![c].path = how]

\* The call throws (the promise rejects).
Throw(c, how) ==
  [calls EXCEPT ![c].pc = "done", ![c].thrown = TRUE, ![c].path = how]

\* Entry up to the first await: the Map lookup, then redis.get is written.
GetStart(c, i, k) ==
  /\ CanStart(c)
  /\ LET new == [IdleCall EXCEPT !.op = "get", !.inst = i, !.key = k,
                                 !.seq = Follows(c), !.settled = Settled(i, k)]
     IN IF Truthy(CachedApiKey(i, k))
        THEN /\ calls' = [calls EXCEPT ![c] =
                    [new EXCEPT !.pc = "done", !.result = CachedApiKey(i, k),
                                !.path = "local"]]
             /\ UNCHANGED conn
        ELSE /\ calls' = [calls EXCEPT ![c] =
                    [new EXCEPT !.pc = "redisWait", !.rcalls = 1]]
             /\ conn' = Send(i, <<Command("get", k, Null, c)>>)
  /\ UNCHANGED <<logs, hashes, notified, store, redis, local, inbox, published>>

\* A faulty variant: redis.get is awaited without the race against the timer.
RedisGetNoTimeout(c) == FALSE /\ UNCHANGED vars

\* The 1000 ms timer wins the race against redis.get: apiKey is null and
\* the database is queried.  The reply of the GET, if any, is dropped.
RedisGetTimeout(c) ==
  /\ calls[c].op = "get"
  /\ calls[c].pc = "redisWait"
  /\ calls' = [calls EXCEPT ![c].pc = "dbWait", ![c].timedOut = TRUE,
                            ![c].scalls = @ + 1]
  /\ conn' = [conn EXCEPT ![calls[c].inst] =
        SelectSeq(@, LAMBDA m : ~(m.op = "get" /\ m.call = c))]
  /\ UNCHANGED <<logs, hashes, notified, store, redis, local, inbox, published>>

\* redis.get rejects: the catch block logs and getApiKey returns null.
RedisGetError(i) ==
  /\ HeadIs(i, "get")
  /\ calls' = Return(Head(conn[i]).call, Null, "cacheError")
  /\ conn' = Pop(i)
  /\ UNCHANGED <<logs, hashes, notified, store, redis, local, inbox, published>>

\* redis runs GET api-key:<key>; the continuation after
\* await Promise.race([redis.get(redisKey), timeout]) runs on the reply.
RedisGetReply(i) ==
  /\ HeadIs(i, "get")
  /\ LET c == Head(conn[i]).call
         k == Head(conn[i]).key
         apiKey == redis[k].val
         got == [calls EXCEPT ![c].val = apiKey]
     IN IF Truthy(apiKey)
        THEN IF IsNegativeMarker(apiKey)
             THEN /\ calls' = [got EXCEPT ![c].pc = "done", ![c].path = "marker"]
                  /\ UNCHANGED local
             ELSE LET apiKeyEntity == ApiKeyEntity(JSONparse(apiKey))
                  IN /\ local' = [local EXCEPT ![i][k] = apiKeyEntity]
                     /\ calls' = [got EXCEPT ![c].pc = "done", ![c].path = "cached",
                                             ![c].result = apiKeyEntity]
        ELSE /\ calls' = [got EXCEPT ![c].pc = "dbWait", ![c].scalls = @ + 1]
             /\ UNCHANGED local
  /\ conn' = Pop(i)
  /\ UNCHANGED <<logs, hashes, notified, store, redis, inbox, published>>

\* The database runs the SELECT of getApiKey.
StoreQueryExec(c) ==
  /\ calls[c].op = "get"
  /\ calls[c].pc = "dbWait"
  /\ calls' = [calls EXCEPT ![c].pc = "dbGot",
                            ![c].fromDb = SelectActive(calls[c].key)]
  /\ UNCHANGED <<logs, hashes, notified, store, redis, local, conn, inbox, published>>

\* A faulty variant: the database query is made outside the try block.
StoreQueryErrorThrows(c) ==
  /\ calls[c].op = "get"
  /\ calls[c].pc = "dbWait"
  /\ calls' = Throw(c, "storeError")
  /\ UNCHANGED <<logs, hashes, notified, store, redis, local, conn, inbox, published>>

\* redb.oneOrNone rejects: the catch block logs and getApiKey returns null.
StoreQueryError(c) ==
  /\ calls[c].op = "get"
  /\ calls[c].pc = "dbWait"
  /\ calls' = Return(c, Null, "storeError")
  /\ UNCHANGED <<logs, hashes, notified, store, redis, local, conn, inbox, published>>

\* The continuation after await redb.oneOrNone(...).
GetStoreReturn(c) ==
  /\ calls[c].op = "get"
  /\ calls[c].pc = "dbGot"
  /\ LET fromDb == calls[c].fromDb
         i == calls[c].inst
         k == calls[c].key
     IN IF Truthy(fromDb)
        THEN LET apiKeyEntity == ApiKeyEntity(fromDb)
             IN /\ conn' = Send(i, WriteThrough(k, fromDb, c))
                /\ local' = [local EXCEPT ![i][k] = apiKeyEntity]
                /\ calls' = Return(c, apiKeyEntity, "found")
        ELSE /\ conn' = Send(i, NegativeWrite(k, c))
             /\ calls' = Return(c, Null, "notfound")
             /\ UNCHANGED local
  /\ UNCHANGED <<logs, hashes, notified, store, redis, inbox, published>>

(***************************************************************************)
(* deleteCachedApiKey(key) and update(key, fields)                         *)
(***************************************************************************)
\* A faulty variant: the whole Map is cleared.
EvictWholeMap(i, k, c) ==
  /\ local' = [local EXCEPT ![i] = [x \in Keys |-> Null]]
  /\ conn' = Send(i, <<Command("del", k, Null, c)>>)

\* ApiKeyManager.apiKeys.delete(key); redis.del(`api-key:${key}`) is written.
Evict(i, k, c) ==
  /\ local' = [local EXCEPT ![i][k] = Null]
  /\ conn' = Send(i, <<Command("del", k, Null, c)>>)

\* deleteCachedApiKey called on its own, up to await redis.del(...).
DeleteStart(c, i, k) ==
  /\ CanStart(c)
  /\ Evict(i, k, c)
  /\ calls' = [calls EXCEPT ![c] =
        [IdleCall EXCEPT !.op = "delete", !.inst = i, !.key = k,
                         !.pc = "delWait", !.rcalls = 1, !.seq = Follows(c)]]
  /\ UNCHANGED <<logs, hashes, notified, store, redis, inbox, published>>

\* A faulty variant: the invalidation message is published with the UPDATE,
\* before the eviction.
UpdateStartPublishesFirst(c, i, k, f) ==
  /\ CanStart(c)
  /\ UpdateString(f) # {}
  /\ store' = [store EXCEPT ![k] = UpdateRow(@, f)]
  /\ calls' = [calls EXCEPT ![c] =
        [IdleCall EXCEPT !.op = "update", !.inst = i, !.key = k, !.fields = f,
                         !.pc = "updGot", !.scalls = 1, !.seq = Follows(c)]]
  /\ published' = Append(published, [key |-> k, by |-> c])
  /\ inbox' = [j \in Instances |-> inbox[j] \cup {k}]
  /\ UNCHANGED <<logs, hashes, notified, redis, local, conn>>

\* update up to the reply of await idb.none(query, replacementValues): the
\* database has run the UPDATE.  With no assignment the statement reads
\* "UPDATE api_keys SET WHERE ...", which the database rejects.
UpdateStart(c, i, k, f) ==
  /\ CanStart(c)
  /\ UpdateString(f) # {}
  /\ store' = [store EXCEPT ![k] = UpdateRow(@, f)]
  /\ calls' = [calls EXCEPT ![c] =
        [IdleCall EXCEPT !.op = "update", !.inst = i, !.key = k, !.fields = f,
                         !.pc = "updGot", !.scalls = 1, !.seq = Follows(c)]]
  /\ UNCHANGED <<logs, hashes, notified, redis, local, conn, inbox, published>>

\* A faulty variant: the key is evicted from the Map although the UPDATE was
\* rejected.
UpdateEmptyEvicts(c, i, k, f) ==
  /\ CanStart(c)
  /\ UpdateString(f) = {}
  /\ calls' = [calls EXCEPT ![c] =
        [IdleCall EXCEPT !.op = "update", !.inst = i, !.key = k, !.fields = f,
                         !.pc = "done", !.thrown = TRUE, !.path = "syntaxError",
                         !.scalls = 1, !.seq = Follows(c)]]
  /\ local' = [local EXCEPT ![i][k] = Null]
  /\ UNCHANGED <<logs, hashes, notified, store, redis, conn, inbox, published>>

\* update with no field defined: the statement is rejected, update has no
\* catch and the rejection reaches the caller.
UpdateEmpty(c, i, k, f) ==
  /\ CanStart(c)
  /\ UpdateString(f) = {}
  /\ calls' = [calls EXCEPT ![c] =
        [IdleCall EXCEPT !.op = "update", !.inst = i, !.key = k, !.fields = f,
                         !.pc = "done", !.thrown = TRUE, !.path = "syntaxError",
                         !.scalls = 1, !.seq = Follows(c)]]
  /\ UNCHANGED <<logs, hashes, notified, store, redis, local, conn, inbox, published>>

\* idb.none rejects for a reason of the database's: the rejection reaches
\* the caller.
UpdateStoreError(c, i, k, f) ==
  /\ CanStart(c)
  /\ UpdateString(f) # {}
  /\ calls' = [calls EXCEPT ![c] =
        [IdleCall EXCEPT !.op = "update", !.inst = i, !.key = k, !.fields = f,
                         !.pc = "done", !.thrown = TRUE, !.path = "storeError",
                         !.scalls = 1, !.seq = Follows(c)]]
  /\ UNCHANGED <<logs, hashes, notified, store, redis, local, conn, inbox, published>>

\* The continuation after await idb.none(...): deleteCachedApiKey(key).
UpdateEvict(c) ==
  /\ calls[c].op = "update"
  /\ calls[c].pc = "updGot"
  /\ Evict(calls[c].inst, calls[c].key, c)
  /\ calls' = [calls EXCEPT ![c].pc = "delWait", ![c].rcalls = @ + 1]
  /\ UNCHANGED <<logs, hashes, notified, store, redis, inbox, published>>

\* redis.publish(Channel.ApiKeyUpdated, JSON.stringify({ key }))
InvalidationMessage(k, c) == <<Command("publish", k, Null, c)>>

(***************************************************************************)
(* redis: the commands of one connection run in the order written.         *)
(***************************************************************************)
\* SET api-key:<key> <value>: replaces the value and drops any expiration.
ExecSet(i) ==
  /\ HeadIs(i, "set")
  /\ LET m == Head(conn[i])
     IN redis' = [redis EXCEPT ![m.key] = [val |-> m.val, ttl |-> 0]]
  /\ conn' = Pop(i)
  /\ UNCHANGED <<logs, hashes, notified, store, local, inbox, published, calls>>

\* EXPIRE api-key:<key> 86400: sets the expiration of whatever is there.
ExecExpire(i) ==
  /\ HeadIs(i, "expire")
  /\ LET m == Head(conn[i])
     IN redis' = [redis EXCEPT ![m.key] =
            IF Truthy(@.val) THEN [@ EXCEPT !.ttl = NegativeTtl] ELSE @]
  /\ conn' = Pop(i)
  /\ UNCHANGED <<logs, hashes, notified, store, local, inbox, published, calls>>

\* redis runs DEL api-key:<key>; on the reply deleteCachedApiKey returns,
\* and update, which awaited it, writes its redis.publish.
RedisDelReply(i) ==
  /\ HeadIs(i, "del")
  /\ LET m == Head(conn[i])
         c == m.call
     IN /\ redis' = [redis EXCEPT ![m.key] = NoEntry]
        /\ IF calls[c].op = "update"
           THEN /\ calls' = [calls EXCEPT ![c].pc = "pubWait", ![c].rcalls = @ + 1]
                /\ conn' = [conn EXCEPT ![i] = Tail(@) \o InvalidationMessage(m.key, c)]
           ELSE /\ calls' = Return(c, Null, "deleted")
                /\ conn' = Pop(i)
  /\ UNCHANGED <<logs, hashes, notified, store, local, inbox, published>>

\* redis.del rejects: neither deleteCachedApiKey nor update catches it.
RedisDelError(i) ==
  /\ HeadIs(i, "del")
  /\ calls' = Throw(Head(conn[i]).call, "cacheError")
  /\ conn' = Pop(i)
  /\ UNCHANGED <<logs, hashes, notified, store, redis, local, inbox, published>>

\* redis runs PUBLISH: the message reaches the subscription of every
\* instance; on the reply update returns.
RedisPublishReply(i) ==
  /\ HeadIs(i, "publish")
  /\ LET m == Head(conn[i])
     IN /\ published' = Append(published, [key |-> m.key, by |-> m.call])
        /\ inbox' = [j \in Instances |-> inbox[j] \cup {m.key}]
        /\ calls' = Return(m.call, Null, "updated")
  /\ conn' = Pop(i)
  /\ UNCHANGED <<logs, hashes, notified, store, redis, local>>

\* redis.publish rejects: update does not catch it.
RedisPublishError(i) ==
  /\ HeadIs(i, "publish")
  /\ calls' = Throw(Head(conn[i]).call, "busError")
  /\ conn' = Pop(i)
  /\ UNCHANGED <<logs, hashes, notified, store, redis, local, inbox, published>>

(***************************************************************************)
(* create(values)                                                          *)
(***************************************************************************)
\* The ApiKeyRecord values passed to create: key is optional (undefined when
\* keyDef is FALSE).
Emails == {"a", "ab"}
Websites == {"c", "bc"}

CreateValues ==
  [keyDef : {FALSE}, key : {""}, email : Emails, website : Websites, tier : {1}]
    \cup [keyDef : {TRUE}, key : {"", "k1"}, email : {"a"}, website : {"bc"},
          tier : {1}]

\* !values.key: undefined and the empty string are both falsy.
KeyMissing(values) == ~values.keyDef \/ values.key = ""

\* `${values.key}${values.email}${values.website}`: a template literal
\* renders undefined as the text "undefined".
DerivationString(values) ==
  (IF values.keyDef THEN values.key ELSE "undefined")
    \o values.email \o values.website

\* getUuidByString(text), of the library uuid-by-string: a UUID computed from
\* a hash of the text; equal texts give equal UUIDs, and different texts are
\* taken to give different UUIDs.
getUuidByString(text) == "uuid(" \o text \o ")"

\* values.key as create leaves it after lines 38-40.
CreateKey(values) ==
  IF KeyMissing(values) THEN getUuidByString(DerivationString(values))
  ELSE values.key

\* Whether api_keys holds a row of key k.
HasRow(k) == k \in DOMAIN store /\ store[k] # Null

\* INSERT INTO api_keys ... ON CONFLICT DO NOTHING: the table after the
\* statement.  The column active is not among the values; the row is active
\* by the default of the column.
InsertOnConflictDoNothing(k, values) ==
  IF HasRow(k) THEN store
  ELSE [x \in DOMAIN store \cup {k} |->
          IF x = k THEN Row(k, values.tier, TRUE) ELSE store[x]]

\* RETURNING 1: the one row the statement returns when it inserted.
Returning1 == [tag |-> "one", key |-> "", tier |-> 0, active |-> FALSE]

\* The value false create returns when the INSERT failed.
False == [tag |-> "false", key |-> "", tier |-> 0, active |-> FALSE]

\* { key: values.key }
NewApiKeyResponse(k) == [tag |-> "response", key |-> k, tier |-> 0, active |-> FALSE]

\* `apikey:${values.key}`, the name of the hash create writes.
HashKey(k) == "apikey:" \o k

\* `api-key:${key}`, the name getApiKey reads and deleteCachedApiKey deletes.
RedisKey(k) == "api-key:" \o k

\* create up to the reply of await idb.oneOrNone(INSERT ...): the key is
\* derived when none was given, the database has run the INSERT, and
\* redis.hset is written.
CreateStart(c, i, values) ==
  LET k == CreateKey(values)
  IN /\ CanStart(c)
     /\ store' = InsertOnConflictDoNothing(k, values)
     /\ calls' = [calls EXCEPT ![c] =
           [IdleCall EXCEPT !.op = "create", !.inst = i, !.key = k,
                            !.fields = [values EXCEPT !.keyDef = TRUE, !.key = k],
                            !.val = values,
                            !.fromDb = IF HasRow(k) THEN Null ELSE Returning1,
                            !.pc = "hsetWait", !.scalls = 1, !.rcalls = 1,
                            !.seq = Follows(c)]]
     /\ conn' = Send(i, <<Command("hset", k, [values EXCEPT !.keyDef = TRUE, !.key = k], c)>>)
     /\ UNCHANGED <<logs, redis, local, inbox, published, hashes, notified>>

\* A faulty variant: the failed INSERT is followed by the write of the hash.
CreateInsertErrorWritesCache(c, i, values) ==
  /\ CanStart(c)
  /\ calls' = [calls EXCEPT ![c] =
        [IdleCall EXCEPT !.op = "create", !.inst = i, !.key = CreateKey(values),
                         !.fields = [values EXCEPT !.keyDef = TRUE,
                                                   !.key = CreateKey(values)],
                         !.val = values,
                         !.pc = "done", !.result = False, !.path = "storeError",
                         !.scalls = 1, !.seq = Follows(c)]]
  /\ hashes' = [x \in DOMAIN hashes \cup {HashKey(CreateKey(values))} |->
                  IF x = HashKey(CreateKey(values)) THEN values ELSE hashes[x]]
  /\ UNCHANGED <<logs, store, redis, local, conn, inbox, published, notified>>

\* The INSERT rejects: the catch at lines 49-52 logs and returns false.
CreateInsertError(c, i, values) ==
  /\ CanStart(c)
  /\ calls' = [calls EXCEPT ![c] =
        [IdleCall EXCEPT !.op = "create", !.inst = i, !.key = CreateKey(values),
                         !.fields = [values EXCEPT !.keyDef = TRUE,
                                                   !.key = CreateKey(values)],
                         !.val = values,
                         !.pc = "done", !.result = False, !.path = "storeError",
                         !.scalls = 1, !.seq = Follows(c)]]
  /\ UNCHANGED <<logs, store, redis, local, conn, inbox, published, hashes, notified>>

\* axios.post(config.slackApiKeyWebhookUrl, ...): one invocation of the webhook.
Notification(c) == [key |-> calls[c].fields.key, by |-> c]

\* A faulty variant: the webhook is called whether or not a row was inserted.
AfterHsetAlwaysNotifies(c) ==
  /\ notified' = Append(notified, Notification(c))
  /\ calls' = [calls EXCEPT ![c].pc = "notifyWait"]

\* Lines 64-70 after the try/catch around hset: the webhook is called and
\* awaited when the INSERT created the row, else { key } is returned.
AfterHset(c) ==
  IF Truthy(calls[c].fromDb)
  THEN /\ notified' = Append(notified, Notification(c))
       /\ calls' = [calls EXCEPT ![c].pc = "notifyWait"]
  ELSE /\ notified' = notified
       /\ calls' = Return(c, NewApiKeyResponse(calls[c].fields.key), "exists")

\* HSET apikey:<key> field value ...: sets the fields given, keeps the others.
RedisHsetReply(i) ==
  /\ HeadIs(i, "hset")
  /\ LET m == Head(conn[i])
         name == HashKey(m.key)
     IN /\ hashes' = [x \in DOMAIN hashes \cup {name} |->
                        IF x = name THEN m.val ELSE hashes[x]]
        /\ AfterHset(m.call)
  /\ conn' = Pop(i)
  /\ UNCHANGED <<logs, store, redis, local, inbox, published>>

\* A faulty variant: the rejection of redis.hset ends create with false.
RedisHsetErrorSurfaced(i) ==
  /\ HeadIs(i, "hset")
  /\ calls' = Return(Head(conn[i]).call, False, "cacheError")
  /\ conn' = Pop(i)
  /\ UNCHANGED <<logs, store, redis, local, inbox, published, hashes, notified>>

\* redis.hset rejects: the catch at lines 59-62 logs and create goes on.
RedisHsetError(i) ==
  /\ HeadIs(i, "hset")
  /\ AfterHset(Head(conn[i]).call)
  /\ conn' = Pop(i)
  /\ UNCHANGED <<logs, store, redis, local, inbox, published, hashes>>

\* The webhook answers: notifyApiKeyCreated resolves and create returns { key }.
NotifyResolved(c) ==
  /\ calls[c].op = "create" /\ calls[c].pc = "notifyWait"
  /\ calls' = Return(c, NewApiKeyResponse(calls[c].fields.key), "created")
  /\ UNCHANGED <<logs, store, redis, local, conn, inbox, published, hashes, notified>>

\* The webhook fails: .catch(() => {}) at lines 292-294 swallows the error.
NotifyRejected(c) ==
  /\ calls[c].op = "create" /\ calls[c].pc = "notifyWait"
  /\ calls' = Return(c, NewApiKeyResponse(calls[c].fields.key), "notifyError")
  /\ UNCHANGED <<logs, store, redis, local, conn, inbox, published, hashes, notified>>

(***************************************************************************)
(* The subscriber of Channel.ApiKeyUpdated (not in the files at hand):     *)
(* on {key} an instance evicts the key from its own Map.                   *)
(***************************************************************************)
OnApiKeyUpdated(j, k) ==
  /\ k \in inbox[j]
  /\ local' = [local EXCEPT ![j][k] = Null]
  /\ inbox' = [inbox EXCEPT ![j] = @ \ {k}]
  /\ UNCHANGED <<logs, hashes, notified, store, redis, conn, published, calls>>

Next ==
  \/ \E c \in Calls, i \in Instances, k \in CallKeys : GetStart(c, i, k)
  \/ \E c \in Calls : RedisGetTimeout(c)
  \/ \E i \in Instances : RedisGetError(i)
  \/ \E i \in Instances : RedisGetReply(i)
  \/ \E c \in Calls : StoreQueryExec(c)
  \/ \E c \in Calls : StoreQueryError(c)
  \/ \E c \in Calls : GetStoreReturn(c)
  \/ \E c \in Calls, i \in Instances, k \in CallKeys : DeleteStart(c, i, k)
  \/ \E c \in Calls, i \in Instances, k \in CallKeys, f \in UpdateParams :
        UpdateStart(c, i, k, f)
  \/ \E c \in Calls, i \in Instances, k \in CallKeys, f \in UpdateParams :
        UpdateEmpty(c, i, k, f)
  \/ \E c \in Calls, i \in Instances, k \in CallKeys, f \in UpdateParams :
        UpdateStoreError(c, i, k, f)
  \/ \E c \in Calls : UpdateEvict(c)
  \/ \E i \in Instances : ExecSet(i)
  \/ \E i \in Instances : ExecExpire(i)
  \/ \E i \in Instances : RedisDelReply(i)
  \/ \E i \in Instances : RedisDelError(i)
  \/ \E i \in Instances : RedisPublishReply(i)
  \/ \E i \in Instances : RedisPublishError(i)
  \/ \E j \in Instances, k \in Keys : OnApiKeyUpdated(j, k)

Spec == Init /\ [][Next]_vars

(***************************************************************************)
(* The shared cache unreachable: no command written to redis is ever       *)
(* answered.  Timers fire, the database answers and continuations run.     *)
(***************************************************************************)
NextDown ==
  \/ \E c \in Calls, i \in Instances, k \in CallKeys : GetStart(c, i, k)
  \/ \E c \in Calls : RedisGetTimeout(c)
  \/ \E c \in Calls : StoreQueryExec(c)
  \/ \E c \in Calls : StoreQueryError(c)
  \/ \E c \in Calls : GetStoreReturn(c)
  \/ \E c \in Calls, i \in Instances, k \in CallKeys, f \in UpdateParams :
        UpdateStart(c, i, k, f)
  \/ \E c \in Calls : UpdateEvict(c)

SpecDown == Init /\ [][NextDown]_vars /\ WF_vars(NextDown)

(***************************************************************************)
(* Creation of keys alone: create calls, their redis commands and the      *)
(* answers of the webhook.                                                 *)
(***************************************************************************)
NextCreate ==
  \/ \E c \in Calls, i \in Instances, values \in CreateValues :
        CreateStart(c, i, values)
  \/ \E c \in Calls, i \in Instances, values \in CreateValues :
        CreateInsertError(c, i, values)
  \/ \E i \in Instances : RedisHsetReply(i)
  \/ \E i \in Instances : RedisHsetError(i)
  \/ \E c \in Calls : NotifyResolved(c)
  \/ \E c \in Calls : NotifyRejected(c)

SpecCreate == Init /\ [][NextCreate]_vars

(***************************************************************************)
(* The four operations together, with every database statement, redis      *)
(* command and webhook call answered: create, getApiKey, update and         *)
(* deleteCachedApiKey in any interleaving.                                  *)
(***************************************************************************)
NextAll ==
  \/ \E c \in Calls, i \in Instances, values \in CreateValues :
        CreateStart(c, i, values)
  \/ \E i \in Instances : RedisHsetReply(i)
  \/ \E c \in Calls : NotifyResolved(c)
  \/ \E c \in Calls, i \in Instances, k \in CallKeys : GetStart(c, i, k)
  \/ \E i \in Instances : RedisGetReply(i)
  \/ \E c \in Calls : StoreQueryExec(c)
  \/ \E c \in Calls : GetStoreReturn(c)
  \/ \E c \in Calls, i \in Instances, k \in CallKeys : DeleteStart(c, i, k)
  \/ \E c \in Calls, i \in Instances, k \in CallKeys, f \in UpdateParams :
        UpdateStart(c, i, k, f)
  \/ \E c \in Calls : UpdateEvict(c)
  \/ \E i \in Instances : ExecSet(i)
  \/ \E i \in Instances : ExecExpire(i)
  \/ \E i \in Instances : RedisDelReply(i)
  \/ \E i \in Instances : RedisPublishReply(i)
  \/ \E j \in Instances, k \in Keys : OnApiKeyUpdated(j, k)

SpecAll == Init /\ [][NextAll]_vars

(***************************************************************************)
(* Properties.                                                             *)
(***************************************************************************)
\* The entity carrying the fields of the row of key k.
EntityOfRow(row) ==
  [tag |-> "entity", key |-> row.key, tier |-> row.tier, active |-> row.active]

\* The active row the table holds for k, null when there is none.
ActiveRow(k) == IF store[k].tag = "row" /\ store[k].active THEN store[k] ELSE Null

\* C1: a lookup that missed both caches and whose query found the active row
\* of the key returns the entity built from that row, has put that entity in
\* the Map of its instance when it returns, and has written to redis exactly
\* one command, SET api-key:<key> <row as JSON>, with no expiration.
C1_StoreHitPopulatesBothTiers ==
  [][\A c \in Calls :
       LET i == calls[c].inst
           k == calls[c].key
           fromDb == calls[c].fromDb
       IN /\ (calls[c].pc = "dbWait" /\ calls'[c].pc = "dbGot") =>
               calls'[c].fromDb = ActiveRow(k)
          /\ (calls[c].pc = "dbGot" /\ Truthy(fromDb) /\ calls'[c] # calls[c]) =>
               /\ calls'[c].pc = "done"
               /\ ~calls'[c].thrown
               /\ fromDb.key = k /\ fromDb.active
               /\ calls'[c].result = EntityOfRow(fromDb)
               /\ local'[i][k] = EntityOfRow(fromDb)
               /\ conn'[i] = Append(conn[i],
                     [op |-> "set", key |-> k, call |-> c,
                      val |-> [tag |-> "json", key |-> k, tier |-> fromDb.tier,
                               active |-> TRUE]])
               /\ redis' = redis
  ]_vars

\* C1 witness: a lookup found the row in the table after missing both caches;
\* the Map holds the entity and the write has reached redis, with no expiration.
C1_Witness ==
  \E c \in Calls :
    /\ calls[c].op = "get" /\ calls[c].pc = "done" /\ calls[c].path = "found"
    /\ ~calls[c].timedOut
    /\ local[calls[c].inst][calls[c].key] = calls[c].result
    /\ redis[calls[c].key] = [val |-> JSONstringify(calls[c].fromDb), ttl |-> 0]

\* C2: a lookup entered while the Map of its instance holds an entry for the
\* key returns that entry at once: nothing is written to redis, the table is
\* not queried, and the Map, redis and the table are left as they were.
C2_LocalHitNoIO ==
  [][\A c \in Calls, i \in Instances, k \in Keys :
       (/\ calls[c].pc = "idle"
        /\ calls'[c].op = "get" /\ calls'[c].inst = i /\ calls'[c].key = k
        /\ Truthy(local[i][k])) =>
          /\ calls'[c].pc = "done"
          /\ calls'[c].result = local[i][k]
          /\ ~calls'[c].thrown
          /\ calls'[c].rcalls = 0 /\ calls'[c].scalls = 0
          /\ UNCHANGED <<store, redis, local, conn, inbox, published>>
  ]_vars

\* C2 witness: a lookup was served from the Map.
C2_Witness ==
  \E c \in Calls :
    /\ calls[c].op = "get" /\ calls[c].pc = "done" /\ calls[c].path = "local"
    /\ Truthy(calls[c].result)
    /\ calls[c].result = local[calls[c].inst][calls[c].key]

\* C10: when the query of the table fails, the lookup returns null: it does
\* not throw, returns no entity, and adds nothing to the Map (nor to redis).
C10_StoreFailureFailsClosed ==
  [][\A c \in Calls :
       (calls[c].op = "get" /\ calls[c].pc = "dbWait" /\ calls'[c].pc = "done") =>
          /\ calls'[c].result = Null
          /\ ~calls'[c].thrown
          /\ UNCHANGED <<store, redis, local, conn>>
  ]_vars

\* C10 witness: a lookup whose query failed has returned, with an empty Map.
C10_Witness ==
  \E c \in Calls :
    /\ calls[c].op = "get" /\ calls[c].pc = "done" /\ calls[c].path = "storeError"
    /\ calls[c].scalls = 1
    /\ ~Truthy(local[calls[c].inst][calls[c].key])

\* No timer has won a race and nothing has been rejected in the run so far.
NoFailure ==
  \A e \in Calls :
    /\ ~calls[e].timedOut
    /\ calls[e].path \notin {"cacheError", "storeError", "busError", "syntaxError"}

\* Call d is a lookup entered right after the lookup d - 1 of the same key
\* returned null, for a key the table has no row of.
FollowsNullLookup(d) ==
  /\ d > 1
  /\ calls[d].op = "get" /\ calls[d].seq
  /\ calls[d - 1].op = "get" /\ calls[d - 1].key = calls[d].key
  /\ calls[d - 1].result = Null
  /\ store[calls[d].key] = Null

\* C3 as stated: when a lookup that missed both caches and found no active
\* row has returned, redis holds the marker with an expiration of 86400.
C3_MarkerInCacheAtReturn ==
  \A c \in Calls :
    (calls[c].op = "get" /\ calls[c].pc = "done" /\ calls[c].path = "notfound") =>
       /\ calls[c].result = Null
       /\ redis[calls[c].key] = [val |-> Empty, ttl |-> 86400]

\* C3 amended: a lookup that missed both caches and found no active row
\* returns null, leaving the Map and redis as they are, and has written to
\* its connection SET api-key:<key> "empty" followed by EXPIRE; redis holds
\* the marker with the expiration of 86400 once it has run both commands.
C3_MarkerWrittenNotAwaited ==
  [][/\ \A c \in Calls :
          LET i == calls[c].inst
              k == calls[c].key
          IN (/\ calls[c].op = "get" /\ calls[c].pc = "dbGot"
              /\ ~Truthy(calls[c].fromDb) /\ calls'[c] # calls[c]) =>
                /\ calls'[c].pc = "done"
                /\ calls'[c].result = Null
                /\ ~calls'[c].thrown
                /\ UNCHANGED <<store, redis, local>>
                /\ conn'[i] = conn[i] \o
                     << [op |-> "set", key |-> k, val |-> Empty, call |-> c],
                        [op |-> "expire", key |-> k, val |-> Null, call |-> c] >>
     /\ \A i \in Instances :
          (/\ conn[i] # <<>> /\ Head(conn[i]).op = "expire"
           /\ conn'[i] = Tail(conn[i])
           /\ redis[Head(conn[i]).key].val = Empty) =>
             redis'[Head(conn[i]).key] = [val |-> Empty, ttl |-> 86400]
  ]_vars

\* C3 witness: a lookup found no row, and redis has run both of its commands.
C3_Witness ==
  \E c \in Calls :
    /\ calls[c].op = "get" /\ calls[c].pc = "done" /\ calls[c].path = "notfound"
    /\ calls[c].val = Null /\ ~calls[c].timedOut
    /\ conn[calls[c].inst] = <<>>
    /\ redis[calls[c].key] = [val |-> Empty, ttl |-> 86400]

\* C4 as stated: a lookup of an unknown key that follows a lookup which found
\* no row and returned null makes no query of the table and is served from
\* the marker (in a run where no timer won and nothing was rejected).
C4_SecondLookupNoStoreQuery ==
  \A d \in Calls :
    (/\ FollowsNullLookup(d)
     /\ calls[d - 1].path = "notfound"
     /\ NoFailure) =>
        /\ calls[d].scalls = 0
        /\ calls[d].pc = "done" => calls[d].result = Null /\ calls[d].path = "marker"

\* C4 amended: such a lookup returns null in every case; it makes no query of
\* the table when its cache read returns the marker; and its cache read does
\* return the marker when it is made on the instance of the first lookup,
\* whose Store query found nothing, resolves before the timeout, and no
\* update or deleteCachedApiKey is made in the run.
C4_SecondLookupServedFromMarker ==
  \A d \in Calls :
    FollowsNullLookup(d) =>
      /\ calls[d].pc = "done" => calls[d].result = Null /\ ~calls[d].thrown
      /\ calls[d].val = Empty =>
           /\ calls[d].scalls = 0
           /\ calls[d].pc = "done" /\ calls[d].path = "marker"
      /\ (/\ calls[d].inst = calls[d - 1].inst
          /\ calls[d - 1].path = "notfound"
          /\ calls[d].pc \in {"dbWait", "dbGot", "done"}
          /\ ~calls[d].timedOut /\ calls[d].path # "cacheError"
          /\ \A e \in Calls : calls[e].op \in {"none", "get"}) =>
             calls[d].val = Empty

\* C4 witness: the second lookup, on the same instance, was served from the
\* marker the first one wrote.
C4_Witness ==
  \E d \in Calls :
    /\ FollowsNullLookup(d)
    /\ calls[d - 1].path = "notfound" /\ calls[d - 1].inst = calls[d].inst
    /\ calls[d].pc = "done" /\ calls[d].path = "marker" /\ calls[d].scalls = 0

\* The invalidation messages published by call c.
PublishedBy(c) == SelectSeq(published, LAMBDA msg : msg.by = c)

\* C6 as stated: every update call that has ended after its UPDATE statement
\* changed the row has published exactly one message, {key} of its key.
C6_EveryUpdatePublishesOnce ==
  \A c \in Calls :
    (/\ calls[c].op = "update" /\ calls[c].pc = "done"
     /\ calls[c].path \notin {"storeError", "syntaxError"}) =>
        PublishedBy(c) = << [key |-> calls[c].key, by |-> c] >>

\* C9 as stated: a lookup whose cache read failed has queried the table, and
\* returns the entity of the key's active row (no update is made in the run).
C9_CacheReadErrorFallsThrough ==
  \A c \in Calls :
    (calls[c].op = "get" /\ calls[c].pc = "done" /\ calls[c].path = "cacheError") =>
       /\ calls[c].scalls = 1
       /\ (/\ Truthy(ActiveRow(calls[c].key))
           /\ \A e \in Calls : calls[e].op # "update") =>
              calls[c].result = EntityOfRow(ActiveRow(calls[c].key))

\* A lookup that has returned an entity differing from the active row of its key.
Stale(d) ==
  /\ calls[d].op = "get" /\ calls[d].pc = "done"
  /\ Truthy(calls[d].result)
  /\ calls[d].result # EntityOfRow(ActiveRow(calls[d].key))

\* C5 as stated: the lookup entered on an instance right after an update of
\* the key returned on that instance, the only update of the run, does not
\* return an entity other than that of the row as updated (in a run where no
\* timer won and nothing was rejected).
C5_LookupAfterUpdateIsFresh ==
  \A d \in Calls :
    (/\ d > 1
     /\ NoFailure
     /\ calls[d].op = "get" /\ calls[d].seq
     /\ calls[d - 1].op = "update" /\ calls[d - 1].path = "updated"
     /\ calls[d - 1].inst = calls[d].inst /\ calls[d - 1].key = calls[d].key
     /\ \A e \in Calls \ {d - 1} : calls[e].op # "update") =>
        ~Stale(d)

\* C7 as stated: a lookup entered on an instance after every update has
\* returned and the instance has handled the invalidation messages, one of
\* them from an update made on another instance, does not return an entity
\* other than that of the row as updated (in a run where no timer won and
\* nothing was rejected).
C7_LookupAfterInvalidationIsFresh ==
  \A d \in Calls :
    (/\ calls[d].op = "get" /\ calls[d].settled
     /\ NoFailure
     /\ \E u \in Calls :
          /\ u < d /\ calls[u].op = "update" /\ calls[u].path = "updated"
          /\ calls[u].key = calls[d].key /\ calls[u].inst # calls[d].inst
     /\ \A e \in Calls : e > d => calls[e].op # "update") =>
        ~Stale(d)

\* C8: with redis unreachable every lookup returns; a lookup that missed the
\* Map has waited for the timer, made one query of the table and, when the
\* query found the active row of the key, returns the entity of that row;
\* no lookup throws.
C8_LookupSurvivesUnreachableCache ==
  /\ \A c \in Calls : (calls[c].op = "get") ~> (calls[c].pc = "done")
  /\ [](\A c \in Calls :
          (calls[c].op = "get" /\ calls[c].pc = "done") =>
             /\ ~calls[c].thrown
             /\ calls[c].path # "local" =>
                  /\ calls[c].timedOut /\ calls[c].scalls = 1
                  /\ calls[c].path \in {"found", "notfound", "storeError"}
             /\ calls[c].path = "found" =>
                  /\ calls[c].fromDb.key = calls[c].key /\ calls[c].fromDb.active
                  /\ calls[c].result = EntityOfRow(calls[c].fromDb)
             /\ calls[c].path \in {"notfound", "storeError"} =>
                  calls[c].result = Null)
  /\ [][\A c \in Calls :
          (calls[c].pc = "dbWait" /\ calls'[c].pc = "dbGot") =>
             calls'[c].fromDb = ActiveRow(calls[c].key)]_vars

\* C8 witness: with redis unreachable a lookup has returned the entity of the
\* row after the timer and one query; redis has answered nothing.
C8_Witness ==
  \E c \in Calls :
    /\ calls[c].op = "get" /\ calls[c].pc = "done" /\ calls[c].path = "found"
    /\ calls[c].timedOut /\ calls[c].scalls = 1
    /\ calls[c].result = EntityOfRow(store[calls[c].key])
    /\ \A k \in CallKeys : redis[k] = NoEntry

(***************************************************************************)
(* Properties of create.                                                   *)
(***************************************************************************)
\* C11 as stated: any two create calls given no key and the same email and
\* website have the same key.
C11_SameIdentitySameKey ==
  \A c, d \in Calls :
    (/\ calls[c].op = "create" /\ calls[d].op = "create"
     /\ KeyMissing(calls[c].val) /\ KeyMissing(calls[d].val)
     /\ calls[c].val.email = calls[d].val.email
     /\ calls[c].val.website = calls[d].val.website) =>
        calls[c].key = calls[d].key

\* The invocations of the webhook made by call c.
NotifiedBy(c) == SelectSeq(notified, LAMBDA msg : msg.by = c)

\* Whether the INSERT of create call c inserted the row.
Created(c) == calls[c].op = "create" /\ Truthy(calls[c].fromDb)

\* C12: the webhook is invoked at most once for a key; each invocation is
\* made by the create call whose INSERT inserted the row of that key; that
\* call makes exactly one invocation once redis.hset has been answered, and a
\* call whose INSERT was a no-op conflict (or failed) makes none; at most one
\* call inserts the row of a key.
C12_NotifiedOncePerKey ==
  /\ \A m, n \in 1..Len(notified) :
       notified[m].key = notified[n].key => m = n
  /\ \A n \in 1..Len(notified) :
       Created(notified[n].by) /\ calls[notified[n].by].key = notified[n].key
  /\ \A c \in Calls :
       Len(NotifiedBy(c)) =
         IF Created(c) /\ calls[c].pc \in {"notifyWait", "done"} THEN 1 ELSE 0
  /\ \A c, d \in Calls :
       (Created(c) /\ Created(d) /\ calls[c].key = calls[d].key) => c = d

\* C12 witness: two create calls of one key have returned, one inserted the
\* row and the other met the conflict, and the webhook was invoked once.
C12_Witness ==
  \E c, d \in Calls :
    /\ c # d /\ calls[c].key = calls[d].key
    /\ calls[c].op = "create" /\ calls[c].pc = "done" /\ Created(c)
    /\ calls[d].op = "create" /\ calls[d].pc = "done" /\ calls[d].path = "exists"
    /\ Len(notified) = 1

\* C13: a create call whose INSERT fails returns false, and the step leaves
\* the table, both redis namespaces, the connections, the Maps and the
\* webhook untouched.
C13_InsertFailureNoPartialState ==
  [][\A c \in Calls :
       (/\ calls[c].pc = "idle" /\ calls'[c].op = "create"
        /\ calls'[c].path = "storeError") =>
          /\ calls'[c].pc = "done"
          /\ calls'[c].result = False /\ ~calls'[c].thrown
          /\ UNCHANGED <<store, redis, hashes, local, conn, notified>>
  ]_vars

\* C13 witness: a create call whose INSERT failed has returned false.
C13_Witness ==
  \E c \in Calls :
    /\ calls[c].op = "create" /\ calls[c].pc = "done"
    /\ calls[c].path = "storeError" /\ calls[c].result = False
    /\ HashKey(calls[c].key) \notin DOMAIN hashes
    /\ Len(NotifiedBy(c)) = 0

\* C14: a create call whose INSERT did not fail and that has returned has
\* returned { key } with the key of the row, whatever became of redis.hset
\* and of the webhook; it has not thrown.
C14_ReturnsKeyWhateverCacheAndNotifier ==
  \A c \in Calls :
    (calls[c].op = "create" /\ calls[c].pc = "done" /\ calls[c].path # "storeError") =>
       /\ calls[c].result = NewApiKeyResponse(calls[c].key)
       /\ ~calls[c].thrown
       /\ calls[c].path \in {"created", "notifyError", "exists"}
       /\ calls[c].key = CreateKey(calls[c].val)

\* C14 witness: a create call whose redis.hset and whose webhook both failed
\* has returned { key }.
C14_Witness ==
  \E c \in Calls :
    /\ calls[c].op = "create" /\ calls[c].pc = "done"
    /\ calls[c].path = "notifyError"
    /\ HashKey(calls[c].key) \notin DOMAIN hashes
    /\ calls[c].result = NewApiKeyResponse(calls[c].key)

\* What redis holds under a name: the string of the namespace getApiKey
\* reads, or the hash create wrote, or nothing.
DistributedCache(name) ==
  IF \E k \in Keys : RedisKey(k) = name
  THEN redis[CHOOSE k \in Keys : RedisKey(k) = name].val
  ELSE IF name \in DOMAIN hashes THEN hashes[name] ELSE Null

\* C15 as stated: after a create call that inserted the row and whose
\* redis.hset succeeded, redis holds the record under "api-key:" + key.
C15_RecordUnderLookupName ==
  \A c \in Calls :
    (/\ Created(c) /\ calls[c].pc \in {"notifyWait", "done"}
     /\ HashKey(calls[c].key) \in DOMAIN hashes) =>
        Truthy(DistributedCache(RedisKey(calls[c].key)))

(***************************************************************************)
(* Properties of deleteCachedApiKey and update.                            *)
(***************************************************************************)
\* C16 as stated: an update or deleteCachedApiKey call whose redis.del or
\* redis.publish was rejected does not surface the error to its caller.
C16_CacheFailureNotSurfaced ==
  \A c \in Calls :
    (/\ calls[c].op \in {"update", "delete"} /\ calls[c].pc = "done"
     /\ calls[c].path \in {"cacheError", "busError"}) =>
        ~calls[c].thrown

C18_UpdateTouchesSuppliedFieldsOnly ==
  [][\A c \in Calls :
       LET k == calls'[c].key
           f == calls'[c].fields
       IN /\ (calls[c].pc = "idle" /\ calls'[c].op = "update"
              /\ calls'[c].pc = "updGot") =>
               /\ DOMAIN store' = DOMAIN store
               /\ \A x \in DOMAIN store : x # k => store'[x] = store[x]
               /\ store[k] = Null => store'[k] = Null
               /\ store[k] # Null =>
                    /\ store'[k].tag = "row" /\ store'[k].key = store[k].key
                    /\ store'[k].tier = IF f.tierDef THEN f.tier ELSE store[k].tier
                    /\ store'[k].active =
                         IF f.activeDef THEN f.active ELSE store[k].active
          /\ (calls'[c] # calls[c] /\ calls'[c].op # "create"
              /\ ~(calls[c].pc = "idle" /\ calls'[c].pc = "updGot")) =>
               store' = store
  ]_vars

\* C18 witness: update(key, {tier: 2}) has changed the tier of the row and
\* left it active.
C18_Witness ==
  \E c \in Calls :
    /\ calls[c].op = "update" /\ calls[c].path = "updated"
    /\ calls[c].fields.tierDef /\ ~calls[c].fields.activeDef
    /\ store[calls[c].key] = Row(calls[c].key, 2, TRUE)

\* Whether the Map of instance i holds for k nothing, or the entity of the
\* active row of k.
MapFresh(i, k) ==
  \/ local[i][k] = Null
  \/ Truthy(ActiveRow(k)) /\ local[i][k] = EntityOfRow(ActiveRow(k))

\* C19 as stated: on one instance, once a lookup and the one update of the
\* key have both returned (no timer won, nothing was rejected, every call of
\* the run was made on that instance), the Map holds no entity with the
\* values the row had before the update.
C19_NoStaleMapAfterConcurrentUpdate ==
  \A g, u \in Calls :
    (/\ calls[g].op = "get" /\ calls[g].pc = "done"
     /\ calls[u].op = "update" /\ calls[u].path = "updated"
     /\ calls[g].key = calls[u].key
     /\ \A e \in Calls : /\ calls[e].inst = calls[u].inst
                         /\ calls[e].pc \in {"idle", "done"}
                         /\ e # u => calls[e].op # "update"
     /\ NoFailure) =>
        MapFresh(calls[u].inst, calls[u].key)

\* Whether redis holds for k nothing, the marker, or the text of the active
\* row of k.
RedisFresh(k) ==
  \/ redis[k].val \in {Null, Empty}
  \/ Truthy(ActiveRow(k)) /\ redis[k].val = JSONstringify(ActiveRow(k))

\* C20 as stated: a lookup has returned, having written the row through to
\* redis; the one update of the run is then entered and returns; no other
\* call is made; once redis has run every command written to it, it holds no
\* text of the row as it was before the update.
C20_NoStaleRedisAfterUpdate ==
  \A u \in Calls :
    (/\ u > 1
     /\ calls[u].op = "update" /\ calls[u].path = "updated" /\ calls[u].seq
     /\ calls[u - 1].op = "get" /\ calls[u - 1].key = calls[u].key
     /\ \A e \in Calls \ {u - 1, u} : calls[e].op = "none"
     /\ \A i \in Instances : conn[i] = <<>>
     /\ NoFailure) =>
        RedisFresh(calls[u].key)

(***************************************************************************)
(* Properties of the operations together.                                  *)
(***************************************************************************)
\* C21 as stated: the lookup entered right after a create call returned the
\* key, having inserted the row, returns the entity of that row (the calls of
\* the run are made one after the other, and none is an update).
C21_LookupAfterCreateReturnsEntity ==
  \A d \in Calls :
    (/\ d > 1
     /\ calls[d].op = "get" /\ calls[d].pc = "done"
     /\ \A e \in Calls : (1 < e /\ e <= d) => calls[e].seq
     /\ Created(d - 1) /\ calls[d - 1].key = calls[d].key
     /\ \A e \in Calls : calls[e].op # "update") =>
        calls[d].result = EntityOfRow(store[calls[d].key])

\* C27 as stated: the steps of a create call whose INSERT met a conflict
\* change neither the table nor anything redis holds nor any Map.
C27_ConflictChangesNothing ==
  [][\A c \in Calls :
       (/\ calls'[c].op = "create" /\ ~Truthy(calls'[c].fromDb)
        /\ calls'[c].path # "storeError"
        /\ calls'[c] # calls[c]) =>
          UNCHANGED <<store, redis, hashes, local>>
  ]_vars

\* C28: every row of the table is filed under its own key, and no step removes
\* a key from the table, removes a row or changes the key of a row.
C28_StoreKeysOnlyGrow ==
  /\ [](\A k \in DOMAIN store :
          store[k] # Null => store[k].tag = "row" /\ store[k].key = k)
  /\ [][/\ DOMAIN store \subseteq DOMAIN store'
        /\ \A k \in DOMAIN store :
             store[k] # Null => store'[k] # Null /\ store'[k].key = store[k].key
       ]_vars

\* C28 witness: create has added a key to the table and update has
\* deactivated the row of another; both rows are there.
C28_Witness ==
  /\ \E k \in DOMAIN store : k \notin Keys /\ store[k] # Null
  /\ \E c \in Calls :
       /\ calls[c].op = "update" /\ calls[c].path = "updated"
       /\ calls[c].fields.activeDef
       /\ store[calls[c].key] # Null /\ ~store[calls[c].key].active

\* C30 as stated: two create calls given no key whose (email, website) pairs
\* differ hash different texts, and so have different keys.
C30_DifferentIdentityDifferentKey ==
  \A c, d \in Calls :
    (/\ calls[c].op = "create" /\ calls[d].op = "create"
     /\ KeyMissing(calls[c].val) /\ KeyMissing(calls[d].val)
     /\ <<calls[c].val.email, calls[c].val.website>> #
          <<calls[d].val.email, calls[d].val.website>>) =>
        /\ DerivationString(calls[c].val) # DerivationString(calls[d].val)
        /\ calls[c].key # calls[d].key

(***************************************************************************)
(* Invariants of the caches and the order of the steps of update.          *)
(***************************************************************************)
\* C22 as stated: once redis has run every command written to it (no timer
\* won, nothing was rejected), each entry under api-key:<key> is the text of a
\* row with no expiration or the marker with an expiration of 86400.
C22_EntityPersistentMarkerExpiring ==
  (NoFailure /\ \A i \in Instances : conn[i] = <<>>) =>
     \A k \in Keys :
       \/ redis[k] = NoEntry
       \/ redis[k].val.tag = "json" /\ redis[k].ttl = 0
       \/ redis[k].val = Empty /\ redis[k].ttl = NegativeTtl

\* C23: every entry of a Map is an entity of the key it is filed under; a
\* lookup that ends on the marker or on a Store miss leaves the Maps as they
\* are; and a step that puts an entry into a Map is the return of a lookup of
\* that key on that instance, with the entity built from the row its SELECT
\* returned or from the text of a row it read from redis.
C23_MapHoldsOnlyEntities ==
  /\ [](\A i \in Instances, k \in Keys :
          local[i][k] = Null \/
          (local[i][k].tag = "entity" /\ local[i][k].key = k))
  /\ [][/\ \A c \in Calls :
             (/\ calls[c].op = "get" /\ calls[c].pc # "done"
              /\ calls'[c].pc = "done"
              /\ calls'[c].path \in {"marker", "notfound"}) =>
                 /\ local' = local
                 /\ calls'[c].result = Null
        /\ \A i \in Instances, k \in Keys :
             (local'[i][k] # local[i][k] /\ local'[i][k] # Null) =>
               \E c \in Calls :
                 /\ calls[c].op = "get" /\ calls[c].inst = i /\ calls[c].key = k
                 /\ calls[c].pc # "done" /\ calls'[c].pc = "done"
                 /\ \/ /\ calls'[c].path = "found"
                       /\ calls[c].fromDb.tag = "row"
                       /\ local'[i][k] = ApiKeyEntity(calls[c].fromDb)
                    \/ /\ calls'[c].path = "cached"
                       /\ redis[k].val.tag = "json"
                       /\ local'[i][k] = ApiKeyEntity(JSONparse(redis[k].val))
       ]_vars

\* C23 witness: a lookup was answered by the marker, and the Map of its
\* instance has no entry for the key.
C23_Witness ==
  \E c \in Calls :
    /\ calls[c].op = "get" /\ calls[c].pc = "done" /\ calls[c].path = "marker"
    /\ calls[c].val = Empty
    /\ local[calls[c].inst][calls[c].key] = Null

\* C24: the steps of an update call come in this order: the UPDATE, then the
\* deletion from the Map with DEL written, then DEL run by redis with PUBLISH
\* written, then the message published as the call returns; a message is
\* published in no other step, and every message published is that of an
\* update call that has made the steps before it.
C24_UpdateStepsInOrder ==
  /\ [](\A n \in 1..Len(published) :
          LET c == published[n].by
          IN /\ calls[c].op = "update" /\ calls[c].path = "updated"
             /\ published[n].key = calls[c].key)
  /\ [][/\ \A c \in Calls :
             LET i == calls'[c].inst
                 k == calls'[c].key
             IN (calls'[c].op = "update" /\ calls'[c] # calls[c]) =>
                  \/ /\ calls[c].pc = "idle" /\ calls'[c].pc = "updGot"
                     /\ store'[k] = UpdateRow(store[k], calls'[c].fields)
                     /\ UNCHANGED <<local, redis, conn, published>>
                  \/ /\ calls[c].pc = "idle" /\ calls'[c].pc = "done"
                     /\ calls'[c].thrown
                     /\ UNCHANGED <<store, local, redis, conn, published>>
                  \/ /\ calls[c].pc = "updGot" /\ calls'[c].pc = "delWait"
                     /\ local'[i][k] = Null
                     /\ conn'[i] = Append(conn[i], Command("del", k, Null, c))
                     /\ UNCHANGED <<store, redis, published>>
                  \/ /\ calls[c].pc = "delWait" /\ calls'[c].pc = "pubWait"
                     /\ redis'[k] = NoEntry
                     /\ conn'[i] = Append(Tail(conn[i]), Command("publish", k, Null, c))
                     /\ UNCHANGED <<store, published>>
                  \/ /\ calls[c].pc = "pubWait" /\ calls'[c].pc = "done"
                     /\ ~calls'[c].thrown
                     /\ published' = Append(published, [key |-> k, by |-> c])
                     /\ UNCHANGED <<store, redis, local>>
                  \/ /\ calls[c].pc \in {"delWait", "pubWait"}
                     /\ calls'[c].pc = "done" /\ calls'[c].thrown
                     /\ UNCHANGED <<store, redis, local, published>>
        /\ published' # published =>
             \E c \in Calls : calls[c].pc = "pubWait" /\ calls'[c].pc = "done"
       ]_vars

\* C24 witness: an update call has gone through its steps; the row has the new
\* tier, the key is in neither cache and the message is published.
C24_Witness ==
  \E c \in Calls :
    /\ calls[c].op = "update" /\ calls[c].path = "updated"
    /\ calls[c].fields.tierDef
    /\ store[calls[c].key] # Null /\ store[calls[c].key].tier = calls[c].fields.tier
    /\ local[calls[c].inst][calls[c].key] = Null
    /\ redis[calls[c].key] = NoEntry
    /\ published = << [key |-> calls[c].key, by |-> c] >>

\* C26: an update call whose UPDATE is rejected, the one with no field defined
\* included, throws in that step and leaves the table, the Maps, redis and its
\* connections as they are, and publishes nothing, then or later.
C26_FailedUpdateChangesNothing ==
  /\ [](\A c \in Calls :
          (calls[c].op = "update" /\ calls[c].path \in {"storeError", "syntaxError"}) =>
             /\ calls[c].pc = "done" /\ calls[c].thrown
             /\ \A n \in 1..Len(published) : published[n].by # c)
  /\ [][\A c \in Calls :
          (/\ calls[c].pc = "idle" /\ calls'[c].op = "update"
           /\ calls'[c].path \in {"storeError", "syntaxError"}) =>
             UNCHANGED <<store, local, redis, conn, published, inbox>>
       ]_vars

\* C26 witness: the key is in the Map and in redis, and an update call with no
\* field defined has thrown.
C26_Witness ==
  \E c \in Calls :
    /\ calls[c].op = "update" /\ calls[c].path = "syntaxError"
    /\ UpdateString(calls[c].fields) = {}
    /\ Truthy(local[calls[c].inst][calls[c].key])
    /\ redis[calls[c].key].val.tag = "json"

(***************************************************************************)
(* create with a webhook that never answers: the database and redis        *)
(* answer, axios.post neither resolves nor rejects.                        *)
(***************************************************************************)
NextNotifierSilent ==
  \/ \E c \in Calls, i \in Instances, values \in CreateValues :
        CreateStart(c, i, values)
  \/ \E c \in Calls, i \in Instances, values \in CreateValues :
        CreateInsertError(c, i, values)
  \/ \E i \in Instances : RedisHsetReply(i)
  \/ \E i \in Instances : RedisHsetError(i)

SpecNotifierSilent ==
  Init /\ [][NextNotifierSilent]_vars /\ WF_vars(NextNotifierSilent)

\* C25 as stated: every create call returns, also when the webhook never
\* answers.
C25_CreateReturnsWithoutNotifier ==
  \A c \in Calls : (calls[c].op = "create") ~> (calls[c].pc = "done")

(***************************************************************************)
(* logUsage(request)                                                       *)
(***************************************************************************)
\* request.headers["x-api-key"]: absent (undefined) or a text.
KeyHeaders ==
  { [def |-> FALSE, text |-> ""], [def |-> TRUE, text |-> ""],
    [def |-> TRUE, text |-> "k1"], [def |-> TRUE, text |-> "No Key"] }

\* !key: the header is absent or empty.
KeyHeaderMissing(header) == ~header.def \/ header.text = ""

\* log.apiKey = {}; log.apiKey.app_name = name
AppNameOnly(name) == [tag |-> "app_name", key |-> name, tier |-> 0, active |-> FALSE]

\* What getApiKey(key) returns (lines 90, 104, 108, 120, 127, 132): an entity
\* of the key, or null.
GetApiKeyResults(k) == {Null} \cup {ApiKeyEntity(Row(k, t, TRUE)) : t \in Tiers}

\* logger.info("metrics", JSON.stringify(log)), with the apiKey of the log.
MetricsLine(c, apiKey) == [by |-> c, apiKey |-> apiKey]

LogCall(c, i, header) ==
  [IdleCall EXCEPT !.op = "log", !.inst = i, !.key = header.text,
                   !.fields = header, !.seq = Follows(c)]

\* logUsage of a request with no key: lines 203-206, then the log line.
LogUsageNoKey(c, i, header) ==
  /\ CanStart(c)
  /\ KeyHeaderMissing(header)
  /\ calls' = [calls EXCEPT ![c] =
        [LogCall(c, i, header) EXCEPT !.pc = "done", !.path = "noKey"]]
  /\ logs' = Append(logs, MetricsLine(c, AppNameOnly("No Key")))
  /\ UNCHANGED <<store, redis, local, conn, inbox, published, hashes, notified>>

\* logUsage of a request with a key, up to await ApiKeyManager.getApiKey(key).
LogUsageStart(c, i, header) ==
  /\ CanStart(c)
  /\ ~KeyHeaderMissing(header)
  /\ calls' = [calls EXCEPT ![c] = [LogCall(c, i, header) EXCEPT !.pc = "getWait"]]
  /\ UNCHANGED <<store, redis, local, conn, inbox, published, hashes, notified,
                 logs>>

\* getApiKey returned: lines 191-198, then the log line.
LogUsageGot(c, apiKey) ==
  /\ calls[c].op = "log" /\ calls[c].pc = "getWait"
  /\ apiKey \in GetApiKeyResults(calls[c].key)
  /\ calls' = [calls EXCEPT ![c].pc = "done", ![c].val = apiKey,
                            ![c].path = IF Truthy(apiKey) THEN "valid" ELSE "unknown"]
  /\ logs' = Append(logs, MetricsLine(c,
                IF Truthy(apiKey) THEN apiKey ELSE AppNameOnly(calls[c].key)))
  /\ UNCHANGED <<store, redis, local, conn, inbox, published, hashes, notified>>

\* A faulty variant: the rejection of getApiKey is not caught.
LogUsageUncaught(c) ==
  /\ calls[c].op = "log" /\ calls[c].pc = "getWait"
  /\ calls' = Throw(c, "caught")
  /\ UNCHANGED <<store, redis, local, conn, inbox, published, hashes, notified,
                 logs>>

\* getApiKey threw: the catch at lines 199-201 logs the message under
\* "api-key"; the metrics line is written without apiKey.
LogUsageCaught(c) ==
  /\ calls[c].op = "log" /\ calls[c].pc = "getWait"
  /\ calls' = Return(c, Null, "caught")
  /\ logs' = Append(logs, MetricsLine(c, Null))
  /\ UNCHANGED <<store, redis, local, conn, inbox, published, hashes, notified>>

NextLog ==
  \/ \E c \in Calls, i \in Instances, header \in KeyHeaders :
        LogUsageNoKey(c, i, header)
  \/ \E c \in Calls, i \in Instances, header \in KeyHeaders :
        LogUsageStart(c, i, header)
  \/ \E c \in Calls, apiKey \in UNION {GetApiKeyResults(h.text) : h \in KeyHeaders} :
        LogUsageGot(c, apiKey)
  \/ \E c \in Calls : LogUsageCaught(c)

SpecLog == Init /\ [][NextLog]_vars

\* The metrics lines written for request c.
LinesOf(c) == SelectSeq(logs, LAMBDA line : line.by = c)

\* C29 as stated: the app name logged is the literal "No Key" exactly when
\* the request carries no key (no header, or an empty one).
C29_NoKeyLabelOnlyWithoutKey ==
  \A n \in 1..Len(logs) :
    (logs[n].apiKey = AppNameOnly("No Key")) <=>
       KeyHeaderMissing(calls[logs[n].by].fields)

\* C29 amended: a logUsage call that has ended has written exactly one
\* metrics line and has not thrown, whatever getApiKey did, and one that has
\* not ended has written none; the line carries the app name "No Key" when
\* the request has no key header or an empty one, the entity when getApiKey
\* returned one, the text of the key as app name when getApiKey returned null
\* (so the label "No Key" also for an unknown key that reads "No Key"), and
\* no apiKey when getApiKey threw.
C29_OneMetricsLinePerRequest ==
  /\ \A n \in 1..Len(logs) : calls[logs[n].by].op = "log"
  /\ \A c \in Calls :
       calls[c].op = "log" =>
         /\ ~calls[c].thrown
         /\ Len(LinesOf(c)) = IF calls[c].pc = "done" THEN 1 ELSE 0
         /\ calls[c].pc = "done" =>
              LinesOf(c)[1].apiKey =
                CASE calls[c].path = "noKey" -> AppNameOnly("No Key")
                  [] calls[c].path = "valid" -> calls[c].val
                  [] calls[c].path = "unknown" -> AppNameOnly(calls[c].fields.text)
                  [] OTHER -> Null
         /\ (calls[c].path = "noKey") <=>
              (calls[c].pc = "done" /\ KeyHeaderMissing(calls[c].fields))
         /\ calls[c].path = "valid" =>
              calls[c].val.tag = "entity" /\ calls[c].val.key = calls[c].fields.text

\* C29 witness: three requests have been logged, one without key, one whose
\* key was valid and one whose lookup threw; each has its one line.
C29_Witness ==
  /\ Len(logs) = 3
  /\ \E c, d, e \in Calls :
       /\ calls[c].path = "noKey" /\ calls[d].path = "valid"
       /\ calls[e].path = "caught"
       /\ LinesOf(e) = << MetricsLine(e, Null) >>

====
